---- MODULE Spec2Model ----
(***************************************************************************)
(* Model of the ADS7953 sampling driver of src/Src/ADC.c: the circular     *)
(* averaging queue (Queue_Init, Queue_Enqueue, Queue_Dequeue,              *)
(* Queue_Average), the sample set g_sample_set, and the driver operations  *)
(* ADS7953_Init, ADS7953_StartSampling, ADS7953_IsSamplingComplete,        *)
(* ADS7953_GetResults and ADS7953_ProcessSamples.                          *)
(***************************************************************************)
EXTENDS Integers, Sequences, FiniteSets, TLC

VARIABLES
    g_sample_set,         \* ADC.c:58  [channel_queues, channel_averages, timestamp]
    g_sampling_complete,  \* ADC.c:59  the completion flag
    g_start_time,         \* ADC.c:60  session-start clock value
    current_channel,      \* ADC.c:122 static local of ADS7953_ProcessSamples
    cs_pin,               \* level of ADS7953_CS_PIN: "high" (deasserted) / "low"
    now,                  \* the value Timer_GetCurrentTime() returns
    pc,                   \* "idle", or "wait": ProcessSamples is in its busy-wait (ADC.c:126)
    busy_pin,             \* level of ADS7953_BUSY_PIN, as GPIO_Read returns it (0 or 1)
    late,                 \* history, kept under MonoSpec: samples recorded at elapsed >= 60000
                          \* since the latest ADS7953_StartSampling (saturating at MaxLate)
    mpc,                  \* kept under IsrSpec: where the main loop stands, "main" between
                          \* calls or a position inside ADS7953_IsSamplingComplete ("ic_...")
                          \* or ADS7953_GetResults ("gr_...")
    current_time,         \* kept under IsrSpec: the local of ADS7953_IsSamplingComplete
    dest,                 \* kept under IsrSpec: the caller's *results of the latest
                          \* ADS7953_GetResults call, written part by part
    frozen,               \* history, kept under IsrSpec: the sample set at the instant that
                          \* call tested the flag and found it set
    results,              \* the destination handed to the latest ADS7953_GetResults call,
                          \* as that call left it (Untouched after any other call)
    lastOp,               \* the driver function called last
    xfers,                \* number of SPI_Transfer16 calls made by the last step
    spi_rx,               \* the word its last SPI_Transfer16 returned (NoWord when xfers = 0)
    ret,                  \* what the last call returned
    session_state,        \* the spec's Idle / Sampling / Complete (history)
    steps,                \* samples recorded since the latest ADS7953_Init (at most MaxSteps)
    cycle,                \* what each recording call of the current round of 16 did (history)
    q,                    \* a stand-alone Queue (queue specification)
    hist,                 \* every value enqueued into q so far (history)
    base                  \* how many of them were enqueued before the latest Queue_Init

vars == <<g_sample_set, g_sampling_complete, g_start_time, current_channel,
          cs_pin, now, pc, busy_pin, results, lastOp, xfers, spi_rx, ret,
          session_state, steps, cycle, late, mpc, current_time, dest, frozen,
          q, hist, base>>

driverVars == <<g_sample_set, g_sampling_complete, g_start_time, current_channel,
                cs_pin, now, pc, busy_pin, results, lastOp, xfers, spi_rx, ret,
                session_state, steps, cycle, late, mpc, current_time, dest, frozen>>

queueVars == <<q, hist, base>>

isrVars == <<mpc, current_time, dest, frozen>>

-----------------------------------------------------------------------------
(* Program constants *)

ADS7953_NUM_CHANNELS == 16

QUEUE_SIZE == 4

SAMPLING_WINDOW == 60000

SAMPLE_MASK == 4095

UINT16_RANGE == 65536

-----------------------------------------------------------------------------
(* uint32_t values (g_start_time, timestamp, the clock) are kept as two 16-bit *)
(* halves <<high, low>>, so that the 32-bit width of the code's arithmetic is  *)
(* kept exactly.                                                               *)

U32(high, low) == <<high, low>>

\* a - b in uint32_t arithmetic (modulo 2^32), as at ADC.c:105 and ADC.c:142.
Sub32(a, b) ==
    LET borrow == IF a[2] < b[2] THEN 1 ELSE 0
    IN  U32((a[1] - b[1] - borrow) % UINT16_RANGE, (a[2] - b[2]) % UINT16_RANGE)

\* a >= n for a uint32_t a and a constant n < 2^16.
Ge32(a, n) == a[1] > 0 \/ a[2] >= n

\* a <= b for two uint32_t values.
Le32(a, b) == a[1] < b[1] \/ (a[1] = b[1] /\ a[2] <= b[2])

(* Bounds of the exploration *)

MaxSteps == 18

MaxLen == 5

MaxLate == 2

MaxIsrSteps == 6

MaxLiveSteps == 3

Channels == 0 .. (ADS7953_NUM_CHANNELS - 1)

\* Clock values Timer_GetCurrentTime() may return. The clock is a 32-bit
\* millisecond counter that wraps, so every value can follow every other.
ClockValues == {U32(0, 0), U32(0, SAMPLING_WINDOW - 1), U32(0, SAMPLING_WINDOW)}

\* Raw 16-bit words SPI_Transfer16 may return for a conversion.
RawValues == {61731, 4094}

SteadyValues == {4095}

NoisyChannels == {0}

RawFor(c) == IF c \in NoisyChannels THEN RawValues ELSE SteadyValues

\* Words SPI_Transfer16 may return for the transfers of ADS7953_Init and
\* ADS7953_StartSampling, which carry no conversion of a channel.
PrimingValues == {2748}

\* No word: the step made no transfer.
NoWord == -1

\* Values enqueued in the stand-alone queue specification.
QueueValues == {10, 20, 30, 40, 50}

\* What the data slots of a Queue may hold before its first Queue_Init.
StaleValues == {0, 4095}

\* What a call returns: nothing (a void function), or a bool.
Void == "void"

BoolRet(b) == IF b THEN "true" ELSE "false"

-----------------------------------------------------------------------------
(* The circular queue, ADC.c:150-189 *)

Queue_Init(qu) == [qu EXCEPT !.front = 0, !.rear = -1, !.size = 0]

\* Faulty variant: the front index is not advanced: the newest slot is given up instead.
Queue_Dequeue_KeepFront(qu) ==
    IF qu.size = 0 THEN qu ELSE [qu EXCEPT !.size = qu.size - 1]

\* The queue after Queue_Dequeue (the value it returns is not used by the driver).
Queue_Dequeue(qu) ==
    IF qu.size = 0
    THEN qu
    ELSE [qu EXCEPT !.front = (qu.front + 1) % QUEUE_SIZE, !.size = qu.size - 1]

\* Faulty variant: a full queue is not dequeued first.
Queue_Enqueue_NoEvict(qu, value) ==
    LET r == (qu.rear + 1) % QUEUE_SIZE
    IN  [qu EXCEPT !.rear = r, !.data[r] = value, !.size = qu.size + 1]

Queue_Enqueue(qu, value) ==
    LET q1 == IF qu.size = QUEUE_SIZE THEN Queue_Dequeue(qu) ELSE qu
        r  == (q1.rear + 1) % QUEUE_SIZE
    IN  [q1 EXCEPT !.rear = r, !.data[r] = value, !.size = q1.size + 1]

RECURSIVE QueueSum(_, _)
QueueSum(qu, i) ==
    IF i >= qu.size THEN 0
    ELSE qu.data[(qu.front + i) % QUEUE_SIZE] + QueueSum(qu, i + 1)

\* Faulty variant: the sum is divided by the capacity instead of the size.
Queue_Average_ByCapacity(qu) ==
    IF qu.size = 0 THEN 0
    ELSE (QueueSum(qu, 0) \div QUEUE_SIZE) % UINT16_RANGE

Queue_Average(qu) ==
    IF qu.size = 0 THEN 0
    ELSE (QueueSum(qu, 0) \div qu.size) % UINT16_RANGE

\* (the uint32_t sum of at most QUEUE_SIZE uint16_t values cannot wrap)

\* The logical contents of a queue, read from the front.
Contents(qu) == [i \in 1 .. qu.size |-> qu.data[(qu.front + i - 1) % QUEUE_SIZE]]

ZeroQueue == [data |-> [i \in 0 .. (QUEUE_SIZE - 1) |-> 0], front |-> 0, rear |-> 0, size |-> 0]

\* g_sample_set after memset(0) and Queue_Init of every queue, ADC.c:82-85.
InitialSampleSet ==
    [channel_queues   |-> [c \in Channels |-> Queue_Init(ZeroQueue)],
     channel_averages |-> [c \in Channels |-> 0],
     timestamp        |-> U32(0, 0)]

\* The local current_time of ADS7953_IsSamplingComplete outside its scope.
NoTime == U32(-1, -1)

\* A caller's destination that no snapshot has been written to.
Untouched ==
    [channel_queues   |-> [c \in Channels |-> Queue_Init(ZeroQueue)],
     channel_averages |-> [c \in Channels |-> -1],
     timestamp        |-> U32(-1, -1)]

-----------------------------------------------------------------------------
(* The driver *)

Elapsed(t) == Sub32(t, g_start_time)

\* Faulty variant: the deadline is compared as an absolute time, so that a
\* clock reading below the start time (the clock has wrapped) never passes.
DeadlineReached_NoWrap(t) ==
    Le32(g_start_time, t) /\ Ge32(Elapsed(t), SAMPLING_WINDOW)

\* Faulty variant: the deadline test excludes the boundary.
DeadlineReached_StrictlyLater(t) == Ge32(Elapsed(t), SAMPLING_WINDOW + 1)

\* The deadline test of ADS7953_IsSamplingComplete, ADC.c:105.
DeadlineReached(t) == Ge32(Elapsed(t), SAMPLING_WINDOW)

\* Faulty variant: the flag is recomputed from the clock on every check.
CheckComplete_Recomputed(t) ==
    /\ g_sampling_complete' = DeadlineReached(t)
    /\ cs_pin' = IF DeadlineReached(t) THEN "high" ELSE cs_pin
    /\ session_state' = IF session_state = "Sampling" /\ DeadlineReached(t)
                         THEN "Complete" ELSE session_state

\* Faulty variant: the flag is set without ending the SPI transaction.
CheckComplete_PinLeftLow(t) ==
    IF ~g_sampling_complete /\ DeadlineReached(t)
    THEN /\ g_sampling_complete' = TRUE
         /\ session_state' = IF session_state = "Sampling" THEN "Complete" ELSE session_state
         /\ UNCHANGED cs_pin
    ELSE UNCHANGED <<g_sampling_complete, cs_pin, session_state>>

\* The flag, pin and session effects of ADS7953_IsSamplingComplete read at clock t.
CheckComplete(t) ==
    IF ~g_sampling_complete /\ DeadlineReached(t)
    THEN /\ g_sampling_complete' = TRUE
         /\ cs_pin' = "high"
         /\ session_state' = IF session_state = "Sampling" THEN "Complete" ELSE session_state
    ELSE UNCHANGED <<g_sampling_complete, cs_pin, session_state>>

\* Faulty variant: the queues are re-initialised without the memset, so the
\* averages and the timestamp survive.
ADS7953_Init_NoMemset ==
    /\ pc = "idle"
    /\ cs_pin' = "high"
    /\ g_sample_set' = [g_sample_set EXCEPT
                           !.channel_queues = [c \in Channels |-> Queue_Init(@[c])]]
    /\ session_state' = "Idle"
    /\ lastOp' = "Init"
    /\ xfers' = 1
    /\ spi_rx' \in PrimingValues
    /\ ret' = Void
    /\ results' = Untouched
    /\ steps' = 0
    /\ UNCHANGED <<g_sampling_complete, g_start_time, current_channel, now, pc,
                   cycle, busy_pin, queueVars>>

ADS7953_Init ==
    /\ pc = "idle"
    /\ cs_pin' = "high"
    /\ g_sample_set' = InitialSampleSet
    /\ session_state' = "Idle"
    /\ lastOp' = "Init"
    /\ xfers' = 1
    /\ spi_rx' \in PrimingValues
    /\ ret' = Void
    /\ results' = Untouched
    /\ steps' = 0
    /\ UNCHANGED <<g_sampling_complete, g_start_time, current_channel, now, pc,
                   cycle, busy_pin, queueVars>>

\* Faulty variant: a new session starts from an empty sample set.
ADS7953_StartSampling_Clears ==
    /\ pc = "idle"
    /\ g_sampling_complete' = FALSE
    /\ g_start_time' = now
    /\ cs_pin' = "low"
    /\ session_state' = "Sampling"
    /\ lastOp' = "StartSampling"
    /\ xfers' = 2
    /\ spi_rx' \in PrimingValues
    /\ ret' = Void
    /\ results' = Untouched
    /\ g_sample_set' = InitialSampleSet
    /\ UNCHANGED <<current_channel, now, pc, steps, cycle, busy_pin, queueVars>>

ADS7953_StartSampling ==
    /\ pc = "idle"
    /\ g_sampling_complete' = FALSE
    /\ g_start_time' = now
    /\ cs_pin' = "low"
    /\ session_state' = "Sampling"
    /\ lastOp' = "StartSampling"
    /\ xfers' = 2
    /\ spi_rx' \in PrimingValues
    /\ ret' = Void
    /\ results' = Untouched
    /\ UNCHANGED <<g_sample_set, current_channel, now, pc, steps, cycle, busy_pin, queueVars>>

ADS7953_IsSamplingComplete ==
    /\ pc = "idle"
    /\ CheckComplete(now)
    /\ ret' = BoolRet(g_sampling_complete')
    /\ lastOp' = "IsSamplingComplete"
    /\ xfers' = 0
    /\ spi_rx' = NoWord
    /\ results' = Untouched
    /\ UNCHANGED <<g_sample_set, g_start_time, current_channel, now, pc, steps,
                   cycle, busy_pin, queueVars>>

ADS7953_GetResults ==
    /\ pc = "idle"
    /\ results' = IF g_sampling_complete THEN g_sample_set ELSE Untouched
    /\ ret' = Void
    /\ lastOp' = "GetResults"
    /\ xfers' = 0
    /\ spi_rx' = NoWord
    /\ UNCHANGED <<g_sample_set, g_sampling_complete, g_start_time, current_channel,
                   cs_pin, now, pc, session_state, steps, cycle, busy_pin, queueVars>>

\* Faulty variant: the call does not test the completion flag.
ProcessSamples_Call_Unguarded ==
    /\ pc = "idle"
    /\ steps < MaxSteps
    /\ pc' = "wait"
    /\ lastOp' = "ProcessSamples"
    /\ xfers' = 0
    /\ spi_rx' = NoWord
    /\ ret' = Void
    /\ results' = Untouched
    /\ UNCHANGED <<g_sample_set, g_sampling_complete, g_start_time, current_channel,
                   cs_pin, now, session_state, steps, cycle, busy_pin, queueVars>>

\* ADS7953_ProcessSamples is called: it returns at once when the flag is set,
\* and otherwise enters the busy-wait on ADS7953_BUSY_PIN.
ProcessSamples_Call ==
    /\ pc = "idle"
    /\ g_sampling_complete \/ steps < MaxSteps
    /\ pc' = IF g_sampling_complete THEN "idle" ELSE "wait"
    /\ lastOp' = "ProcessSamples"
    /\ xfers' = 0
    /\ spi_rx' = NoWord
    /\ ret' = Void
    /\ results' = Untouched
    /\ UNCHANGED <<g_sample_set, g_sampling_complete, g_start_time, current_channel,
                   cs_pin, now, session_state, steps, cycle, busy_pin, queueVars>>

\* Faulty variant: the timestamp is written by the first call of a round, not the last.
Record_StampFirst(set, c, raw, t) ==
    LET qn == Queue_Enqueue(set.channel_queues[c], raw % (SAMPLE_MASK + 1))
    IN  [channel_queues   |-> [set.channel_queues EXCEPT ![c] = qn],
         channel_averages |-> [set.channel_averages EXCEPT ![c] = Queue_Average(qn)],
         timestamp        |-> IF c = 0 THEN Elapsed(t) ELSE set.timestamp]

\* Faulty variant: the raw word is stored without masking.
Record_Unmasked(set, c, raw, t) ==
    LET qn   == Queue_Enqueue(set.channel_queues[c], raw % UINT16_RANGE)
        next == (c + 1) % ADS7953_NUM_CHANNELS
    IN  [channel_queues   |-> [set.channel_queues EXCEPT ![c] = qn],
         channel_averages |-> [set.channel_averages EXCEPT ![c] = Queue_Average(qn)],
         timestamp        |-> IF next = 0 THEN Elapsed(t) ELSE set.timestamp]

\* The sample set after recording raw word `raw` into channel c and, when the
\* channel index wraps, stamping the elapsed time read at clock t.
Record(set, c, raw, t) ==
    LET qn   == Queue_Enqueue(set.channel_queues[c], raw % (SAMPLE_MASK + 1))
        next == (c + 1) % ADS7953_NUM_CHANNELS
    IN  [channel_queues   |-> [set.channel_queues EXCEPT ![c] = qn],
         channel_averages |-> [set.channel_averages EXCEPT ![c] = Queue_Average(qn)],
         timestamp        |-> IF next = 0 THEN Elapsed(t) ELSE set.timestamp]

\* History of the current round of ADS7953_NUM_CHANNELS consecutive recording
\* calls: for each call, the channels whose queue changed, and whether the
\* timestamp was treated as a round requires: set to the elapsed time read by
\* the call when the call is the last of the round, left alone otherwise.
Observe(cyc, old, new, elapsed) ==
    LET n     == IF Len(cyc) = ADS7953_NUM_CHANNELS THEN 1 ELSE Len(cyc) + 1
        entry == [ch    |-> {c \in Channels : new.channel_queues[c] # old.channel_queues[c]},
                  ts_ok |-> IF n = ADS7953_NUM_CHANNELS
                            THEN new.timestamp = elapsed
                            ELSE new.timestamp = old.timestamp]
    IN  IF n = 1 THEN <<entry>> ELSE Append(cyc, entry)

\* The count of late samples after one more sample recorded at the given
\* elapsed time; the count saturates at MaxLate.
CountLate(n, elapsed) ==
    IF Ge32(elapsed, SAMPLING_WINDOW) /\ n < MaxLate THEN n + 1 ELSE n

\* Faulty variant: the step returns without the deadline check of ADC.c:146.
ProcessSamples_Read_NoCheck ==
    /\ pc = "wait"
    /\ busy_pin # 0
    /\ \E raw \in RawFor(current_channel), t2 \in ClockValues :
          /\ spi_rx' = raw
          /\ g_sample_set' = Record(g_sample_set, current_channel, raw, now)
          /\ now' = t2
    /\ current_channel' = (current_channel + 1) % ADS7953_NUM_CHANNELS
    /\ pc' = "idle"
    /\ steps' = steps + 1
    /\ xfers' = 1
    /\ cycle' = Observe(cycle, g_sample_set, g_sample_set', Sub32(now, g_start_time))
    /\ UNCHANGED <<g_sampling_complete, cs_pin, session_state>>
    /\ UNCHANGED <<g_start_time, results, lastOp, ret, busy_pin, queueVars>>

\* Faulty variant: the transfer is made without waiting for the busy pin.
ProcessSamples_Read_NoWait ==
    /\ pc = "wait"
    /\ \E raw \in RawFor(current_channel), t2 \in ClockValues :
          /\ spi_rx' = raw
          /\ g_sample_set' = Record(g_sample_set, current_channel, raw, now)
          /\ now' = t2
          /\ CheckComplete(t2)
    /\ current_channel' = (current_channel + 1) % ADS7953_NUM_CHANNELS
    /\ pc' = "idle"
    /\ steps' = steps + 1
    /\ xfers' = 1
    /\ cycle' = Observe(cycle, g_sample_set, g_sample_set', Sub32(now, g_start_time))
    /\ UNCHANGED <<g_start_time, results, lastOp, ret, busy_pin, queueVars>>

\* The busy pin reads non-zero: one transfer, record, advance, stamp, check.
\* The deadline check reads the clock again, at t2. While the pin reads 0 the
\* loop of ADC.c:126 spins: the call stays at "wait" and nothing changes.
ProcessSamples_Read ==
    /\ pc = "wait"
    /\ busy_pin # 0
    /\ \E raw \in RawFor(current_channel), t2 \in ClockValues :
          /\ spi_rx' = raw
          /\ g_sample_set' = Record(g_sample_set, current_channel, raw, now)
          /\ now' = t2
          /\ CheckComplete(t2)
    /\ current_channel' = (current_channel + 1) % ADS7953_NUM_CHANNELS
    /\ pc' = "idle"
    /\ steps' = steps + 1
    /\ xfers' = 1
    /\ cycle' = Observe(cycle, g_sample_set, g_sample_set', Sub32(now, g_start_time))
    /\ UNCHANGED <<g_start_time, results, lastOp, ret, busy_pin, queueVars>>

\* The clock advances (modulo 2^32) between or during calls.
Tick ==
    /\ \E t \in ClockValues \ {now} : now' = t
    /\ UNCHANGED <<g_sample_set, g_sampling_complete, g_start_time, current_channel,
                   cs_pin, pc, results, lastOp, xfers, spi_rx, ret, session_state,
                   steps, cycle, busy_pin, queueVars>>

\* The converter raises or lowers its busy line.
PinChange ==
    /\ busy_pin' = 1 - busy_pin
    /\ UNCHANGED <<g_sample_set, g_sampling_complete, g_start_time, current_channel,
                   cs_pin, now, pc, results, lastOp, xfers, spi_rx, ret, session_state,
                   steps, cycle, queueVars>>

\* The driver after program start (statics zero-initialised, the flag false)
\* and the first ADS7953_Init.
DriverStart ==
    /\ g_sample_set = InitialSampleSet
    /\ g_sampling_complete = FALSE
    /\ g_start_time = U32(0, 0)
    /\ current_channel = 0
    /\ cs_pin = "high"
    /\ pc = "idle"
    /\ busy_pin \in {0, 1}
    /\ late = 0
    /\ mpc = "main"
    /\ current_time = NoTime
    /\ dest = Untouched
    /\ frozen = Untouched
    /\ results = Untouched
    /\ lastOp = "Init"
    /\ xfers = 1
    /\ spi_rx \in PrimingValues
    /\ ret = Void
    /\ session_state = "Idle"
    /\ steps = 0
    /\ cycle = <<>>

Init ==
    /\ DriverStart
    /\ now \in ClockValues
    /\ q = Queue_Init(ZeroQueue)
    /\ hist = <<>>
    /\ base = 0

Next ==
    \/ ADS7953_Init /\ UNCHANGED <<late, isrVars>>
    \/ ADS7953_StartSampling /\ UNCHANGED <<late, isrVars>>
    \/ ADS7953_IsSamplingComplete /\ UNCHANGED <<late, isrVars>>
    \/ ADS7953_GetResults /\ UNCHANGED <<late, isrVars>>
    \/ ProcessSamples_Call /\ UNCHANGED <<late, isrVars>>
    \/ ProcessSamples_Read /\ UNCHANGED <<late, isrVars>>
    \/ Tick /\ UNCHANGED <<late, isrVars>>
    \/ PinChange /\ UNCHANGED <<late, isrVars>>

Spec == Init /\ [][Next]_vars

-----------------------------------------------------------------------------
(* The driver under a clock that never goes back: Timer_GetCurrentTime does *)
(* not wrap during the run. Late samples are counted per session.          *)

MonoNext ==
    \/ ADS7953_Init /\ UNCHANGED <<late, isrVars>>
    \/ ADS7953_StartSampling /\ late' = 0 /\ UNCHANGED isrVars
    \/ ADS7953_IsSamplingComplete /\ UNCHANGED <<late, isrVars>>
    \/ ADS7953_GetResults /\ UNCHANGED <<late, isrVars>>
    \/ ProcessSamples_Call /\ UNCHANGED <<late, isrVars>>
    \/ ProcessSamples_Read /\ Le32(now, now') /\ late' = CountLate(late, Elapsed(now))
                           /\ UNCHANGED isrVars
    \/ Tick /\ Le32(now, now') /\ UNCHANGED <<late, isrVars>>
    \/ PinChange /\ UNCHANGED <<late, isrVars>>

MonoSpec == Init /\ [][MonoNext]_vars

-----------------------------------------------------------------------------
(* The driver with ADS7953_ProcessSamples called from a timer interrupt: the *)
(* handler runs to completion (the main loop makes no step while pc is       *)
(* "wait") and may run between any two steps that the main loop makes       *)
(* inside ADS7953_IsSamplingComplete and ADS7953_GetResults.                 *)

\* What the main-loop steps below leave alone.
mainKeeps == <<g_sample_set, g_start_time, current_channel, now, pc, busy_pin,
               results, xfers, spi_rx, steps, cycle, late, queueVars>>

\* ADC.c:102, the test of the volatile flag.
IsComplete_ReadFlag ==
    /\ pc = "idle" /\ mpc = "main"
    /\ mpc' = IF g_sampling_complete THEN "ic_ret" ELSE "ic_clock"
    /\ lastOp' = "IsSamplingComplete"
    /\ UNCHANGED <<g_sampling_complete, cs_pin, session_state, ret, current_time,
                   dest, frozen, mainKeeps>>

\* ADC.c:104, current_time = Timer_GetCurrentTime().
IsComplete_ReadClock ==
    /\ pc = "idle" /\ mpc = "ic_clock"
    /\ current_time' = now
    /\ mpc' = "ic_test"
    /\ UNCHANGED <<g_sampling_complete, cs_pin, session_state, ret, lastOp,
                   dest, frozen, mainKeeps>>

\* ADC.c:105-106, the deadline test and the store to the flag.
IsComplete_Test ==
    /\ pc = "idle" /\ mpc = "ic_test"
    /\ IF Ge32(Sub32(current_time, g_start_time), SAMPLING_WINDOW)
       THEN /\ g_sampling_complete' = TRUE
            /\ session_state' = IF session_state = "Sampling" THEN "Complete"
                                 ELSE session_state
            /\ mpc' = "ic_pin"
       ELSE /\ mpc' = "ic_ret"
            /\ UNCHANGED <<g_sampling_complete, session_state>>
    /\ current_time' = NoTime
    /\ UNCHANGED <<cs_pin, ret, lastOp, dest, frozen, mainKeeps>>

\* ADC.c:107, GPIO_SetHigh(ADS7953_CS_PIN).
IsComplete_SetPin ==
    /\ pc = "idle" /\ mpc = "ic_pin"
    /\ cs_pin' = "high"
    /\ mpc' = "ic_ret"
    /\ UNCHANGED <<g_sampling_complete, session_state, ret, lastOp, current_time,
                   dest, frozen, mainKeeps>>

\* ADC.c:110, return g_sampling_complete.
IsComplete_Return ==
    /\ pc = "idle" /\ mpc = "ic_ret"
    /\ ret' = BoolRet(g_sampling_complete)
    /\ mpc' = "main"
    /\ UNCHANGED <<g_sampling_complete, cs_pin, session_state, lastOp, current_time,
                   dest, frozen, mainKeeps>>

\* Faulty variant: the copy is made whatever the flag says.
GetResults_Test_Ungated ==
    /\ pc = "idle" /\ mpc = "main"
    /\ lastOp' = "GetResults"
    /\ ret' = Void
    /\ dest' = Untouched
    /\ frozen' = g_sample_set
    /\ mpc' = "gr_queues"
    /\ UNCHANGED <<g_sampling_complete, cs_pin, session_state, current_time, mainKeeps>>

\* ADC.c:115, the test of the volatile flag, on a destination the caller has
\* just provided. With the flag clear the call returns at once.
GetResults_Test ==
    /\ pc = "idle" /\ mpc = "main"
    /\ lastOp' = "GetResults"
    /\ ret' = Void
    /\ dest' = Untouched
    /\ frozen' = IF g_sampling_complete THEN g_sample_set ELSE Untouched
    /\ mpc' = IF g_sampling_complete THEN "gr_queues" ELSE "main"
    /\ UNCHANGED <<g_sampling_complete, cs_pin, session_state, current_time, mainKeeps>>

\* ADC.c:116, memcpy: the bytes of channel_queues.
GetResults_CopyQueues ==
    /\ pc = "idle" /\ mpc = "gr_queues"
    /\ dest' = [dest EXCEPT !.channel_queues = g_sample_set.channel_queues]
    /\ mpc' = "gr_averages"
    /\ UNCHANGED <<g_sampling_complete, cs_pin, session_state, ret, lastOp,
                   current_time, frozen, mainKeeps>>

\* ADC.c:116, memcpy: the bytes of channel_averages.
GetResults_CopyAverages ==
    /\ pc = "idle" /\ mpc = "gr_averages"
    /\ dest' = [dest EXCEPT !.channel_averages = g_sample_set.channel_averages]
    /\ mpc' = "gr_timestamp"
    /\ UNCHANGED <<g_sampling_complete, cs_pin, session_state, ret, lastOp,
                   current_time, frozen, mainKeeps>>

\* ADC.c:116, memcpy: the bytes of timestamp.
GetResults_CopyTimestamp ==
    /\ pc = "idle" /\ mpc = "gr_timestamp"
    /\ dest' = [dest EXCEPT !.timestamp = g_sample_set.timestamp]
    /\ mpc' = "gr_ret"
    /\ UNCHANGED <<g_sampling_complete, cs_pin, session_state, ret, lastOp,
                   current_time, frozen, mainKeeps>>

\* ADC.c:118, the return.
GetResults_Return ==
    /\ pc = "idle" /\ mpc = "gr_ret"
    /\ mpc' = "main"
    /\ UNCHANGED <<g_sampling_complete, cs_pin, session_state, ret, lastOp,
                   current_time, dest, frozen, mainKeeps>>

IsrNext ==
    \/ mpc = "main" /\ ADS7953_StartSampling /\ UNCHANGED <<late, isrVars>>
    \/ IsComplete_ReadFlag
    \/ IsComplete_ReadClock
    \/ IsComplete_Test
    \/ IsComplete_SetPin
    \/ IsComplete_Return
    \/ GetResults_Test
    \/ GetResults_CopyQueues
    \/ GetResults_CopyAverages
    \/ GetResults_CopyTimestamp
    \/ GetResults_Return
    \/ /\ g_sampling_complete \/ steps < MaxIsrSteps
       /\ ProcessSamples_Call /\ UNCHANGED <<late, isrVars>>
    \/ ProcessSamples_Read /\ UNCHANGED <<late, isrVars>>
    \/ Tick /\ UNCHANGED <<late, isrVars>>
    \/ PinChange /\ UNCHANGED <<late, isrVars>>

IsrSpec == Init /\ [][IsrNext]_vars

-----------------------------------------------------------------------------
(* The driver with a clock that keeps advancing, a busy line that keeps      *)
(* changing and a caller that keeps calling ADS7953_ProcessSamples or       *)
(* ADS7953_IsSamplingComplete.                                              *)

\* The clock reading that follows t: the next of ClockValues, and the least of
\* them again after the greatest (the counter wraps at 2^32).
NextClock(t) ==
    LET later == {u \in ClockValues : u # t /\ Le32(t, u)}
        from  == IF later = {} THEN ClockValues ELSE later
    IN  CHOOSE u \in from : \A w \in from : Le32(u, w)

Advance == Tick /\ now' = NextClock(now) /\ UNCHANGED <<late, isrVars>>

\* A deadline check made at a clock reading that passes the test of ADC.c:105:
\* by a poll, or at the end of a recording ADS7953_ProcessSamples call.
LateCheck ==
    \/ ADS7953_IsSamplingComplete /\ DeadlineReached(now) /\ UNCHANGED <<late, isrVars>>
    \/ ProcessSamples_Read /\ DeadlineReached(now') /\ UNCHANGED <<late, isrVars>>

LiveNext ==
    \/ ADS7953_StartSampling /\ UNCHANGED <<late, isrVars>>
    \/ ADS7953_IsSamplingComplete /\ UNCHANGED <<late, isrVars>>
    \/ /\ g_sampling_complete \/ steps < MaxLiveSteps
       /\ ProcessSamples_Call /\ UNCHANGED <<late, isrVars>>
    \/ ProcessSamples_Read /\ UNCHANGED <<late, isrVars>>
    \/ Advance
    \/ PinChange /\ UNCHANGED <<late, isrVars>>

\* The clock keeps advancing and the busy line keeps changing. The caller
\* keeps calling: of every 2^32 ms all but 60000 have an elapsed time of
\* 60000 or more, so its deadline checks keep meeting such a reading and one
\* of them is made at it.
LiveSpec ==
    /\ Init
    /\ [][LiveNext]_vars
    /\ WF_vars(Advance)
    /\ WF_vars(PinChange /\ UNCHANGED <<late, isrVars>>)
    /\ SF_vars(LateCheck)

-----------------------------------------------------------------------------
(* The queue on its own: any sequence of Queue_Init and Queue_Enqueue calls *)
(* on one Queue whose memory holds stale values before the first call.      *)

QueueInit ==
    /\ q' = Queue_Init(q)
    /\ base' = Len(hist)
    /\ base' # base
    /\ UNCHANGED <<hist, driverVars>>

QueueEnqueue ==
    /\ Len(hist) < MaxLen
    /\ \E v \in QueueValues :
          /\ q' = Queue_Enqueue(q, v)
          /\ hist' = Append(hist, v)
    /\ UNCHANGED <<base, driverVars>>

QueueStart ==
    /\ DriverStart
    /\ now = U32(0, 0)
    /\ \E s \in StaleValues :
          q = Queue_Init([data |-> [i \in 0 .. (QUEUE_SIZE - 1) |-> s],
                          front |-> s, rear |-> s, size |-> s])
    /\ hist = <<>>
    /\ base = 0

QueueNext == QueueInit \/ QueueEnqueue

QueueSpec == QueueStart /\ [][QueueNext]_vars

-----------------------------------------------------------------------------
(* Properties of the driver *)

\* A step of ADS7953_ProcessSamples: the call, or the read that ends its wait.
ProcessStep == ProcessSamples_Call \/ ProcessSamples_Read

\* C1: once the completion flag is true, a call of ADS7953_ProcessSamples
\* returns at once: no SPI transfer, and the channel queues, the averages, the
\* timestamp and the active channel index are unchanged.
C1_ProcessNoOpWhenComplete ==
    [][(g_sampling_complete /\ ProcessStep) =>
          /\ pc' = "idle"
          /\ xfers' = 0
          /\ g_sample_set' = g_sample_set
          /\ current_channel' = current_channel
          /\ g_sampling_complete']_vars

\* A call of ADS7953_ProcessSamples has just returned without a transfer, after
\* samples were recorded and the session completed.
C1_Witness ==
    /\ g_sampling_complete
    /\ session_state = "Complete"
    /\ lastOp = "ProcessSamples" /\ pc = "idle" /\ xfers = 0
    /\ steps > 0

\* C2: the completion flag never goes from true to false except by
\* ADS7953_StartSampling, whatever the clock does, and while it is true every
\* ADS7953_IsSamplingComplete call returns true.
C2_CompletionMonotonic ==
    [][(g_sampling_complete /\ ~ADS7953_StartSampling) =>
          /\ g_sampling_complete'
          /\ (ADS7953_IsSamplingComplete => ret' = "true")]_vars

\* ADS7953_IsSamplingComplete returned true at a clock value at which the
\* deadline test itself is false (the clock has wrapped since completion).
C2_Witness ==
    /\ lastOp = "IsSamplingComplete" /\ ret = "true"
    /\ g_sampling_complete
    /\ session_state = "Complete"
    /\ Sub32(now, g_start_time) = U32(0, 0)

\* C3: the completion flag is set only by a step that reads a clock value t
\* with (t - g_start_time) mod 2^32 >= 60000; ADS7953_IsSamplingComplete polled
\* with the flag clear at elapsed 59999 returns false, and polled at any
\* elapsed >= 60000 returns true.
C3_DeadlineThreshold ==
    [][/\ (~g_sampling_complete /\ g_sampling_complete') =>
             /\ g_start_time' = g_start_time
             /\ Sub32(now', g_start_time)[1] > 0 \/ Sub32(now', g_start_time)[2] >= 60000
       /\ (ADS7953_IsSamplingComplete /\ ~g_sampling_complete
             /\ Sub32(now, g_start_time) = U32(0, 59999)) => ret' = "false"
       /\ (ADS7953_IsSamplingComplete
             /\ (Sub32(now, g_start_time)[1] > 0 \/ Sub32(now, g_start_time)[2] >= 60000))
             => ret' = "true"]_vars

\* A session started at clock 0 was polled at clock 60000 exactly and the poll
\* returned true.
C3_Witness ==
    /\ lastOp = "IsSamplingComplete" /\ ret = "true"
    /\ session_state = "Complete"
    /\ g_start_time = U32(0, 0) /\ now = U32(0, 60000)

\* C4: every ADS7953_StartSampling call leaves the active channel index 0, the
\* completion flag false and the session-start time equal to the clock.
C4_StartResetsSession ==
    [][ADS7953_StartSampling =>
          /\ current_channel' = 0
          /\ g_sampling_complete' = FALSE
          /\ g_start_time' = now]_vars

\* C5: ADS7953_GetResults called with the completion flag false writes nothing
\* to the destination and returns a value that differs from what a call with
\* the flag true returns (ADS7953_GetResults returns Void then).
C5_NotReadyIsReported ==
    (lastOp = "GetResults" /\ ~g_sampling_complete) =>
        (results = Untouched /\ ret # Void)

\* C6: ADS7953_GetResults writes the destination only when a session started by
\* ADS7953_StartSampling has completed since the latest ADS7953_Init.
C6_SnapshotOnlyOfCompletedSession ==
    (lastOp = "GetResults" /\ session_state # "Complete") => results = Untouched

RECURSIVE SeqSum(_)
SeqSum(seq) == IF seq = <<>> THEN 0 ELSE Head(seq) + SeqSum(Tail(seq))

\* The arithmetic mean of a sequence of naturals, rounded toward zero; 0 when empty.
TruncMean(seq) == IF seq = <<>> THEN 0 ELSE SeqSum(seq) \div Len(seq)

\* C7: between calls, every stored average is the truncated mean of the values
\* its channel's queue holds (0 for an empty queue) and lies in 0..4095.
C7_AverageInvariant ==
    \A c \in Channels :
        /\ g_sample_set.channel_averages[c]
              = TruncMean(Contents(g_sample_set.channel_queues[c]))
        /\ g_sample_set.channel_averages[c] \in 0 .. 4095
        /\ (g_sample_set.channel_queues[c].size = 0
              => g_sample_set.channel_averages[c] = 0)

\* Channel 0 holds 0x123 and 0xFFE, whose mean 2192.5 is stored as 2192.
C7_Witness ==
    /\ pc = "idle"
    /\ Contents(g_sample_set.channel_queues[0]) = <<291, 4094>>
    /\ g_sample_set.channel_averages[0] = 2192

\* C8: the recording calls of a round that starts with channel index 0 record
\* into channels 0, 1, ..., 15 in that order, one channel each; the first 15
\* leave the timestamp alone and the 16th sets it to the elapsed time it reads;
\* after the 16th the index is 0 again.
C8_RoundRobin ==
    /\ \A i \in 1 .. Len(cycle) : cycle[i].ch = {i - 1} /\ cycle[i].ts_ok
    /\ Len(cycle) = ADS7953_NUM_CHANNELS => current_channel = 0
    /\ (cycle # <<>> /\ pc = "idle") => current_channel = Len(cycle) % ADS7953_NUM_CHANNELS

\* A full round of 16 recording calls has ended and stamped a non-zero time.
C8_Witness ==
    /\ Len(cycle) = ADS7953_NUM_CHANNELS
    /\ current_channel = 0
    /\ g_sample_set.timestamp = U32(0, 59999)
    /\ \A c \in Channels : g_sample_set.channel_queues[c].size = 1

\* The channel the latest recording call recorded into.
LastChannel == (current_channel + ADS7953_NUM_CHANNELS - 1) % ADS7953_NUM_CHANNELS

\* The newest element of a non-empty queue.
Newest(qu) == Contents(qu)[qu.size]

\* C11: the value a recording call enqueues is the low 12 bits of the word its
\* transfer returned (0xF123 is recorded as 0x123), and every value held in a
\* channel queue is in 0..4095.
C11_Masking ==
    /\ (lastOp = "ProcessSamples" /\ xfers = 1) =>
          Newest(g_sample_set.channel_queues[LastChannel]) = spi_rx % 4096
    /\ \A c \in Channels :
          \A i \in 1 .. g_sample_set.channel_queues[c].size :
              Contents(g_sample_set.channel_queues[c])[i] \in 0 .. 4095

\* The transfer returned 0xF123 and channel 0 recorded 0x123.
C11_Witness ==
    /\ lastOp = "ProcessSamples" /\ xfers = 1
    /\ spi_rx = 61731
    /\ LastChannel = 0
    /\ Newest(g_sample_set.channel_queues[0]) = 291

\* C12: ADS7953_StartSampling leaves the sample set as it was: queues, averages
\* and timestamp carry over, and the word its priming transfer returned is
\* recorded nowhere.
C12_StartKeepsSampleSet ==
    [][lastOp' = "StartSampling" => g_sample_set' = g_sample_set]_vars

\* A session was started over the samples and the timestamp of an earlier one.
C12_Witness ==
    /\ lastOp = "StartSampling"
    /\ spi_rx \in PrimingValues
    /\ g_sample_set.channel_queues[0].size = 1
    /\ g_sample_set.channel_averages[0] = 291
    /\ g_sample_set.timestamp = U32(0, 59999)

\* C13: after ADS7953_Init every channel queue is empty, every average is 0 and
\* the timestamp is 0.
C13_InitClears ==
    lastOp = "Init" =>
        /\ \A c \in Channels :
              /\ g_sample_set.channel_queues[c].size = 0
              /\ g_sample_set.channel_averages[c] = 0
        /\ g_sample_set.timestamp = U32(0, 0)

\* ADS7953_Init has run on a driver that had sampled and completed a session.
C13_Witness ==
    /\ lastOp = "Init"
    /\ g_sampling_complete
    /\ current_channel = 2
    /\ g_sample_set.channel_averages[0] = 0

\* C14: whenever the completion flag is true the chip-select pin is high, in
\* particular right after the step that sets the flag.
C14_CompleteMeansDeselected ==
    g_sampling_complete => cs_pin = "high"

\* A recording call has just completed a session that held chip-select low.
C14_Witness ==
    /\ g_sampling_complete /\ cs_pin = "high"
    /\ session_state = "Complete"
    /\ lastOp = "ProcessSamples" /\ xfers = 1

\* C15: while a started session has not completed the chip-select pin is low,
\* and every transfer of ADS7953_ProcessSamples is made with the pin low.
C15_SelectedThroughoutSession ==
    [][/\ (session_state' = "Sampling" => cs_pin' = "low")
       /\ (ProcessSamples_Read => cs_pin = "low")]_vars

\* C16: ADS7953_ProcessSamples transfers and records only while a session is
\* being sampled; before the first ADS7953_StartSampling after ADS7953_Init it
\* does nothing, and ADS7953_IsSamplingComplete does not set the flag.
C16_NoSamplingWhenIdle ==
    [][/\ (session_state = "Idle" /\ ProcessStep) =>
             (pc' = "idle" /\ xfers' = 0 /\ g_sample_set' = g_sample_set)
       /\ (session_state = "Idle" /\ ADS7953_IsSamplingComplete) =>
             g_sampling_complete' = g_sampling_complete]_vars

-----------------------------------------------------------------------------
(* Properties of the queue *)

\* The values enqueued since the latest Queue_Init, oldest first.
Since == SubSeq(hist, base + 1, Len(hist))

Min(a, b) == IF a < b THEN a ELSE b

\* The last Min(Len(seq), n) elements of seq.
LastN(seq, n) == SubSeq(seq, Len(seq) - Min(Len(seq), n) + 1, Len(seq))

\* C9: the queue's size stays within 0..QUEUE_SIZE: it is the number of values
\* enqueued since Queue_Init, capped at 4, so an enqueue on a full queue leaves
\* the size 4; and every enqueue succeeds: the value is the newest element.
C9_SizeBounded ==
    /\ q.size \in 0 .. 4
    /\ q.size = Min(Len(Since), 4)
    /\ (Since # <<>> => q.data[q.rear] = Since[Len(Since)])

\* Five values were enqueued since Queue_Init: the fifth found the queue full.
C9_Witness == Len(Since) = 5 /\ q.size = 4

\* C10: after Queue_Init and n enqueues the queue holds, from the front, the
\* last min(n, 4) values in insertion order, and Queue_Average is their
\* truncated mean.
C10_FifoEviction ==
    /\ Contents(q) = LastN(Since, 4)
    /\ Queue_Average(q) = TruncMean(LastN(Since, 4))

\* 10, 20, 30, 40, 50 were enqueued: the queue holds 20, 30, 40, 50, average 35.
C10_Witness ==
    /\ Since = <<10, 20, 30, 40, 50>>
    /\ Contents(q) = <<20, 30, 40, 50>>
    /\ Queue_Average(q) = 35

(***************************************************************************)
(* One unit of work per step                                               *)
(***************************************************************************)

\* The driver's state that a sampling step may touch.
StepState == <<g_sample_set, g_sampling_complete, g_start_time, current_channel,
               cs_pin, spi_rx>>

\* C17: a sampling step entered with the flag false does one unit of work.
\* While the busy pin reads 0 the step makes no transfer, changes nothing of
\* the driver's state and does not return. When the step returns, the pin
\* was read non-zero, exactly one transfer was made, the masked word is the
\* one value appended to the active channel's queue (the oldest evicted when
\* the queue was full), and no other channel's queue or average changed.
C17_OneUnitPerStep ==
    [][/\ (pc = "wait" /\ busy_pin = 0) =>
              (pc' = "wait" /\ xfers' = 0 /\ StepState' = StepState)
       /\ (pc = "wait" /\ pc' = "idle") =>
              /\ busy_pin # 0
              /\ xfers' = 1
              /\ Contents(g_sample_set'.channel_queues[current_channel]) =
                     LastN(Append(Contents(g_sample_set.channel_queues[current_channel]),
                                  spi_rx' % 4096), QUEUE_SIZE)
              /\ \A c \in Channels \ {current_channel} :
                     /\ g_sample_set'.channel_queues[c] = g_sample_set.channel_queues[c]
                     /\ g_sample_set'.channel_averages[c] = g_sample_set.channel_averages[c]]_vars

\* A step waited with the pin at 0 while the clock moved on, then saw the
\* pin asserted and returned after one transfer into channel 1 only.
C17_Witness ==
    /\ lastOp = "ProcessSamples" /\ pc = "idle" /\ xfers = 1
    /\ busy_pin = 1
    /\ LastChannel = 1
    /\ g_sample_set.channel_queues[1].size = 1
    /\ g_sample_set.channel_queues[0].size = 1
    /\ \A c \in Channels \ {0, 1} : g_sample_set.channel_queues[c].size = 0

(***************************************************************************)
(* Completion is reached                                                   *)
(***************************************************************************)

C19_BoundedOverrun ==
    /\ late <= 1
    /\ (late = 1 => g_sampling_complete)

\* The sixteenth sample of a session was recorded 60000 ms after its start:
\* it is the one late sample, and the session's timestamp is 60000.
C19_Witness ==
    /\ late = 1
    /\ session_state = "Complete"
    /\ lastOp = "ProcessSamples" /\ xfers = 1
    /\ LastChannel = 15
    /\ g_sample_set.timestamp = U32(0, 60000)

(***************************************************************************)
(* Snapshots under interrupt preemption                                    *)
(***************************************************************************)

\* The main loop is inside the memcpy of ADS7953_GetResults, or has finished
\* it and not yet returned.
Copying == mpc \in {"gr_queues", "gr_averages", "gr_timestamp", "gr_ret"}

\* The latest ADS7953_GetResults call has written a whole snapshot.
Delivered == mpc \in {"gr_ret", "main"} /\ dest # Untouched

\* C20: with ADS7953_ProcessSamples run from a timer interrupt between any two
\* main-loop steps, a snapshot ADS7953_GetResults delivers is untorn. The
\* sample set stays what it was when the flag was tested for as long as the
\* copy is in progress; each part copied so far, and the whole snapshot once
\* delivered, equals the sample set of that one instant; the snapshot's
\* averages are the truncated means of its queues; and it stays so whatever
\* the driver does afterwards.
C20_UntornSnapshot ==
    /\ Copying => g_sample_set = frozen
    /\ mpc \in {"gr_averages", "gr_timestamp"} =>
           dest.channel_queues = frozen.channel_queues
    /\ mpc = "gr_timestamp" => dest.channel_averages = frozen.channel_averages
    /\ Delivered =>
           /\ dest = frozen
           /\ \A c \in Channels :
                  dest.channel_averages[c] = TruncMean(Contents(dest.channel_queues[c]))

\* The interrupt handler ran while ADS7953_GetResults was copying a completed
\* session's samples, and the copy is whole.
C20_Witness ==
    /\ mpc = "gr_ret"
    /\ lastOp = "ProcessSamples"
    /\ dest = frozen
    /\ dest.channel_queues[0].size = 1
    /\ dest.channel_averages[0] = 291

====
